---------------------------- MODULE Spec2Model ----------------------------
(***************************************************************************)
(* Model of src/app.py: a Flask application with two view functions,       *)
(* hello_geek ('/') and health ('/health'), started by                     *)
(* app.run(debug=True, port=8000) when the module is run as __main__.      *)
(*                                                                         *)
(* The program is 17 lines of calls into Flask/Werkzeug, so each           *)
(* definition below renders what the called framework entry point does    *)
(* for the arguments app.py passes:                                        *)
(*   Flask(__name__)        -> an application whose URL map already holds  *)
(*                             the rule /static/<path:filename>            *)
(*   @app.route(rule)       -> add_url_rule(rule, endpoint=f.__name__, f)  *)
(*                             with methods GET + HEAD + automatic OPTIONS *)
(*   app.run(debug=True,    -> the development server on 127.0.0.1:8000,   *)
(*           port=8000)        with the reloader and the interactive       *)
(*                             debugger middleware (DebuggedApplication)   *)
(*                             in front of the application                 *)
(* A path is the sequence of its segments: "/" is <<>>, "/health" is       *)
(* <<"health">>, "/health/" is <<"health", "">>.                           *)
(***************************************************************************)
EXTENDS Naturals, Sequences, FiniteSets

VARIABLES
    pc,              \* position of the interpreter in app.py, or the process state
    name,            \* __name__ of the module: "__main__" when run directly
    port_free,       \* environment: can 127.0.0.1:8000 be bound?
    url_map,         \* app.url_map: the set of registered rules
    view_functions,  \* app.view_functions: the set of <<endpoint, function>> pairs
    server,          \* the development server started by app.run
    debugger,        \* state of the debugger middleware installed by debug=True
    last             \* the last request handled and the response it received

vars == <<pc, name, port_free, url_map, view_functions, server, debugger, last>>

None == "None"

-----------------------------------------------------------------------------
(* The two view functions: each returns a constant string.                 *)

hello_geek_closed == "<h1>Hello from Flask & Docker</h1>"

hello_geek == "<h1>Hello from Flask & Docker</h2>"

health_ok == "ok"

health == "success"

(* Calling the view function bound to an endpoint. The static endpoint is  *)
(* send_static_file: the repository ships no static folder, so every file *)
(* name is missing and the view raises NotFound.                           *)
static_folder == {}

call_view(fn, path) ==
    CASE fn = "hello_geek" -> [raised |-> None, rv |-> hello_geek]
      [] fn = "health"     -> [raised |-> None, rv |-> health]
      [] fn = "send_static_file" ->
            IF SubSeq(path, 2, Len(path)) \in static_folder
            THEN [raised |-> None, rv |-> "<file>"]
            ELSE [raised |-> "NotFound", rv |-> None]

-----------------------------------------------------------------------------
(* Flask(__name__) and @app.route                                          *)

static_rule ==
    [rule |-> "/static/<path:filename>", segments |-> <<"static", "<path:filename>">>,
     endpoint |-> "static", methods |-> {"GET", "HEAD", "OPTIONS"},
     provide_automatic_options |-> TRUE]

route_methods_get_only == {"GET"}

(* add_url_rule with methods unset: ("GET",), HEAD added because GET is    *)
(* there, OPTIONS added because the automatic OPTIONS reply is on.         *)
route_methods == {"GET"} \cup {"HEAD"} \cup {"OPTIONS"}

route_shadowed(rule, segments, f) ==
    [rule |-> rule, segments |-> segments, endpoint |-> "health",
     methods |-> route_methods, provide_automatic_options |-> TRUE]

route(rule, segments, f) ==
    [rule |-> rule, segments |-> segments, endpoint |-> f,
     methods |-> route_methods, provide_automatic_options |-> TRUE]

is_main_typo(nm) == nm = "main"

is_main(nm) == nm = "__main__"

run_options_default_port == [debug |-> TRUE, port |-> 5000]

run_options == [debug |-> TRUE, port |-> 8000]

(* Flask.run: host defaults to 127.0.0.1, use_reloader and use_debugger    *)
(* default to the debug flag.                                              *)
run_simple_config(options) ==
    [state |-> "listening", host |-> "127.0.0.1", port |-> options.port,
     debug |-> options.debug, use_reloader |-> options.debug,
     use_debugger |-> options.debug]

no_server ==
    [state |-> "none", host |-> None, port |-> 0,
     debug |-> FALSE, use_reloader |-> FALSE, use_debugger |-> FALSE]

-----------------------------------------------------------------------------
(* Requests the server can receive                                         *)

METHODS == {"GET", "HEAD", "OPTIONS", "POST"}

PATHS == {<<>>, <<"health">>, <<"health", "">>, <<"missing">>,
          <<"static", "app.css">>, <<"console">>}

(* The debugger's secret (random per process, printed into the page served *)
(* at /console) and its PIN (printed on the server's terminal).            *)
SECRET == "secret"
PIN == "pin"

no_args == [debugger |-> None, cmd |-> None, f |-> None, s |-> None,
            pin |-> None, q |-> None]

(* request.args, the parsed query string; a key that is absent is None.    *)
(* The field debugger stands for the key __debugger__.                     *)
QUERIES ==
    { no_args,
      [no_args EXCEPT !.q = "1"],
      [no_args EXCEPT !.debugger = "yes", !.cmd = "resource", !.f = "style.css"],
      [no_args EXCEPT !.debugger = "yes", !.cmd = "resource", !.f = "nothing.png"],
      [no_args EXCEPT !.debugger = "yes", !.cmd = "pinauth", !.s = SECRET, !.pin = "0000"],
      [no_args EXCEPT !.debugger = "yes", !.cmd = "pinauth", !.s = SECRET, !.pin = PIN] }

(* A request comes bare, with a body, or with an extra header.             *)
EXTRAS == {[data |-> "", headers |-> "none"],
           [data |-> "payload", headers |-> "none"],
           [data |-> "", headers |-> "X-Probe: 1"]}

REQUESTS ==
    {[method |-> m, path |-> p, args |-> a, data |-> x.data, headers |-> x.headers] :
        m \in METHODS, p \in PATHS, a \in QUERIES, x \in EXTRAS}


no_request ==
    [method |-> None, path |-> <<>>, args |-> no_args, data |-> "", headers |-> "none"]

-----------------------------------------------------------------------------
(* Responses                                                               *)

(* get_content_type: text/* mimetypes get the charset parameter.           *)
get_content_type(mimetype) ==
    CASE mimetype = "text/html"  -> "text/html; charset=utf-8"
      [] mimetype = "text/plain" -> "text/plain; charset=utf-8"
      [] mimetype = "text/css"   -> "text/css; charset=utf-8"
      [] OTHER                   -> mimetype

Response(status, body, mimetype) ==
    [status |-> status, body |-> body, content_type |-> get_content_type(mimetype)]

no_response == [status |-> 0, body |-> "", content_type |-> None]

make_response_plain(rv) == Response(200, rv, "text/plain")

(* Flask.make_response for a view that returns a str: status 200 and the   *)
(* response class's default mimetype, text/html.                           *)
make_response(rv) == Response(200, rv, "text/html")

(* Flask.make_default_options_response: an empty 200 response (the methods *)
(* of the rule go into its Allow header).                                  *)
make_default_options_response == Response(200, "", "text/html")

(* The framework's default error pages (HTTPException.get_response).       *)
NotFound == Response(404, "<title>404 Not Found</title>", "text/html")

MethodNotAllowed == Response(405, "<title>405 Method Not Allowed</title>", "text/html")

(* Response.get_app_iter: the body of the reply to a HEAD request is empty. *)
get_app_iter(method, resp) ==
    IF method = "HEAD" THEN [resp EXCEPT !.body = ""] ELSE resp

-----------------------------------------------------------------------------
(* URL matching and dispatch (MapAdapter.match, Flask.dispatch_request)    *)

no_rule ==
    [rule |-> None, segments |-> <<>>, endpoint |-> None, methods |-> {},
     provide_automatic_options |-> FALSE]

rule_matches(r, path) ==
    LET n == Len(r.segments) IN
    IF n > 0 /\ r.segments[n] = "<path:filename>"
    THEN /\ Len(path) >= n
         /\ SubSeq(path, 1, n - 1) = SubSeq(r.segments, 1, n - 1)
         /\ path[n] # ""
    ELSE path = r.segments

match(map, method, path) ==
    LET hits == {r \in map : rule_matches(r, path)}
        ok   == {r \in hits : method \in r.methods}
    IN  IF ok # {} THEN [exception |-> None, rule |-> CHOOSE r \in ok : TRUE]
        ELSE IF hits # {} THEN [exception |-> "MethodNotAllowed", rule |-> no_rule]
        ELSE [exception |-> "NotFound", rule |-> no_rule]

view_function(fns, endpoint) == (CHOOSE p \in fns : p[1] = endpoint)[2]

(* Flask.wsgi_app: match, the automatic OPTIONS reply, the view function,  *)
(* make_response; routing and view exceptions become the default pages.    *)
wsgi_app(map, fns, req) ==
    LET m == match(map, req.method, req.path) IN
    IF m.exception = "NotFound" THEN [resp |-> NotFound, view |-> None]
    ELSE IF m.exception = "MethodNotAllowed"
    THEN [resp |-> MethodNotAllowed, view |-> None]
    ELSE IF m.rule.provide_automatic_options /\ req.method = "OPTIONS"
    THEN [resp |-> make_default_options_response, view |-> None]
    ELSE LET fn  == view_function(fns, m.rule.endpoint)
             out == call_view(fn, req.path)
         IN  IF out.raised = "NotFound" THEN [resp |-> NotFound, view |-> fn]
             ELSE [resp |-> make_response(out.rv), view |-> fn]

-----------------------------------------------------------------------------
(* The debugger middleware that debug=True puts in front of the            *)
(* application (werkzeug.debug.DebuggedApplication, evalex on, PIN on).    *)

debugger_resources == {"style.css", "debugger.js", "console.png"}

guess_type(f) == IF f = "style.css" THEN "text/css" ELSE "application/octet-stream"

get_resource(f) ==
    IF f \in debugger_resources
    THEN [status |-> 200, body |-> f, content_type |-> get_content_type(guess_type(f))]
    ELSE NotFound

(* pin_auth for a request without the debugger's cookie: after more than   *)
(* ten failures every attempt is refused as exhausted; a good PIN resets   *)
(* the failure counter, a bad one increments it.                           *)
pin_auth(failed, entered) ==
    IF failed > 10
    THEN [failed |-> failed,
          resp |-> Response(200, "{\"auth\": false, \"exhausted\": true}", "application/json")]
    ELSE IF entered = PIN
    THEN [failed |-> 0,
          resp |-> Response(200, "{\"auth\": true, \"exhausted\": false}", "application/json")]
    ELSE [failed |-> failed + 1,
          resp |-> Response(200, "{\"auth\": false, \"exhausted\": false}", "application/json")]

(* DebuggedApplication.__call__: requests that carry __debugger__=yes with *)
(* a known command, and requests for the console path, are answered by the *)
(* middleware; everything else is passed to the application.  The server  *)
(* listens on 127.0.0.1 only, so requests carry a loopback Host, which the *)
(* debugger trusts; none carries the debugger's cookie, so none is         *)
(* PIN-authenticated and no console command is executed.                   *)
DebuggedApplication(map, fns, dbg, req) ==
    LET a == req.args
        passed == wsgi_app(map, fns, req)
        app == [resp |-> passed.resp, view |-> passed.view, by |-> "app", dbg |-> dbg]
    IN  IF a.debugger = "yes"
        THEN IF a.cmd = "resource" /\ a.f # None
             THEN [resp |-> get_resource(a.f), view |-> None, by |-> "debugger", dbg |-> dbg]
             ELSE IF a.cmd = "pinauth" /\ a.s = SECRET
             THEN LET r == pin_auth(dbg.failed_pin_auth, a.pin) IN
                  [resp |-> r.resp, view |-> None, by |-> "debugger",
                   dbg |-> [dbg EXCEPT !.failed_pin_auth = r.failed]]
             ELSE IF a.cmd = "printpin" /\ a.s = SECRET
             THEN [resp |-> Response(200, "", "text/plain"), view |-> None,
                   by |-> "debugger", dbg |-> dbg]
             ELSE app
        ELSE IF req.path = <<"console">>
        THEN [resp |-> Response(200, "<title>Console // Werkzeug Debugger</title>", "text/html"),
              view |-> None, by |-> "debugger", dbg |-> dbg]
        ELSE app

(* What the listening server does with one request.                        *)
serve(srv, map, fns, dbg, req) ==
    LET out == IF srv.use_debugger
               THEN DebuggedApplication(map, fns, dbg, req)
               ELSE LET passed == wsgi_app(map, fns, req) IN
                    [resp |-> passed.resp, view |-> passed.view, by |-> "app", dbg |-> dbg]
    IN  [out EXCEPT !.resp = get_app_iter(req.method, out.resp)]

-----------------------------------------------------------------------------
(* The program                                                             *)

no_exchange ==
    [handled |-> FALSE, req |-> no_request, resp |-> no_response, view |-> None,
     by |-> None]

new_debugger == [failed_pin_auth |-> 0]

Init ==
    /\ pc = "line3"
    /\ name \in {"__main__", "app"}
    /\ port_free \in BOOLEAN
    /\ url_map = {}
    /\ view_functions = {}
    /\ server = no_server
    /\ debugger = new_debugger
    /\ last = no_exchange

(* line 3: app = Flask(__name__)                                           *)
CreateApp ==
    /\ pc = "line3"
    /\ url_map' = {static_rule}
    /\ view_functions' = {<<"static", "send_static_file">>}
    /\ pc' = "line6"
    /\ UNCHANGED <<name, port_free, server, debugger, last>>

(* lines 6-8: @app.route('/') def hello_geek                               *)
RegisterHelloGeek ==
    /\ pc = "line6"
    /\ url_map' = url_map \cup {route("/", <<>>, "hello_geek")}
    /\ view_functions' = view_functions \cup {<<"hello_geek", "hello_geek">>}
    /\ pc' = "line11"
    /\ UNCHANGED <<name, port_free, server, debugger, last>>

(* lines 11-13: @app.route('/health') def health                           *)
RegisterHealth ==
    /\ pc = "line11"
    /\ url_map' = url_map \cup {route("/health", <<"health">>, "health")}
    /\ view_functions' = view_functions \cup {<<"health", "health">>}
    /\ pc' = "line16"
    /\ UNCHANGED <<name, port_free, server, debugger, last>>

(* line 16, module imported: the guard is false and the module ends.       *)
Imported ==
    /\ pc = "line16"
    /\ ~is_main(name)
    /\ pc' = "imported"
    /\ UNCHANGED <<name, port_free, url_map, view_functions, server, debugger, last>>

(* lines 16-17, run directly: app.run binds the port and serves.           *)
RunServer ==
    /\ pc = "line16"
    /\ is_main(name)
    /\ port_free
    /\ server' = run_simple_config(run_options)
    /\ debugger' = new_debugger
    /\ pc' = "serving"
    /\ UNCHANGED <<name, port_free, url_map, view_functions, last>>

(* lines 16-17, run directly with the port taken: bind raises OSError and  *)
(* the process exits.                                                      *)
BindError ==
    /\ pc = "line16"
    /\ is_main(name)
    /\ ~port_free
    /\ server' = [run_simple_config(run_options) EXCEPT !.state = "bind failed"]
    /\ pc' = "exited"
    /\ UNCHANGED <<name, port_free, url_map, view_functions, debugger, last>>

(* One request served while app.run is in serve_forever.                   *)
HandleRequest ==
    /\ pc = "serving"
    /\ \E req \in REQUESTS :
          LET out == serve(server, url_map, view_functions, debugger, req) IN
          /\ last' = [handled |-> TRUE, req |-> req, resp |-> out.resp,
                      view |-> out.view, by |-> out.by]
          /\ debugger' = out.dbg
    /\ UNCHANGED <<pc, name, port_free, url_map, view_functions, server>>

(* The process is stopped (SIGINT/SIGTERM): serve_forever returns.         *)
Terminate ==
    /\ pc = "serving"
    /\ pc' = "terminated"
    /\ server' = [server EXCEPT !.state = "stopped"]
    /\ UNCHANGED <<name, port_free, url_map, view_functions, debugger, last>>

Startup ==
    CreateApp \/ RegisterHelloGeek \/ RegisterHealth \/ Imported \/ RunServer \/ BindError

Next == Startup \/ HandleRequest \/ Terminate

Spec == Init /\ [][Next]_vars

(* The interpreter runs the module's statements one after the other, so    *)
(* the start-up steps are taken; requests and signals come from outside.   *)
FairSpec == Spec /\ WF_vars(Startup)

-----------------------------------------------------------------------------
(* Properties                                                              *)

Root == <<>>
Health == <<"health">>
HTML == "text/html; charset=utf-8"

(* The last request was handled, with this method, for this path, and its  *)
(* query string holds no __debugger__ key.                                 *)
Asked(method, path) ==
    /\ last.handled
    /\ last.req.method = method
    /\ last.req.path = path
    /\ last.req.args.debugger = None

rules == {r.rule : r \in url_map}

both_routes_registered == {"/", "/health"} \subseteq rules

C3_UnregisteredNot200 ==
    (last.handled /\ last.req.path \notin {Root, Health}) => last.resp.status # 200

(* The last exchange is one C4 speaks of: a request that is neither GET /  *)
(* nor GET /health.                                                        *)
NotAGetOfARoute ==
    /\ last.handled
    /\ ~(last.req.method = "GET" /\ last.req.path \in {Root, Health})

C5_Idempotent ==
    [][ /\ (last.handled /\ last'.handled /\ last'.req = last.req)
            => last'.resp = last.resp
        /\ (pc = "serving" /\ pc' = "serving")
            => (url_map' = url_map /\ view_functions' = view_functions) ]_vars

C7_OnlyMethodAndPath ==
    [][ ( /\ last.handled /\ last'.handled
          /\ last'.req.method = last.req.method
          /\ last'.req.path = last.req.path )
        => ( /\ last'.resp.status = last.resp.status
             /\ last'.resp.body = last.resp.body ) ]_vars


PastLine17 == pc \in {"serving", "terminated", "exited"}

(* C8: run as __main__, app.run starts the server with debug and the       *)
(* reloader on, for port 8000, and the serving process listens there;      *)
(* imported, the module registers both routes and starts no server.        *)
C8_Entry ==
    /\ (name = "__main__" /\ PastLine17) =>
            /\ server.debug /\ server.use_reloader /\ server.use_debugger
            /\ server.port = 8000
            /\ pc = "serving" => server.state = "listening"
    /\ name # "__main__" =>
            /\ server = no_server
            /\ pc \notin {"serving", "terminated", "exited"}
            /\ pc = "imported" => both_routes_registered

(* C8 happens: the directly run program listens and has served a request.  *)
C8_Witness ==
    /\ name = "__main__"
    /\ pc = "serving"
    /\ server.state = "listening"
    /\ last.handled
    /\ last.req.headers = "X-Probe: 1"

(* C9 as stated: once the program is run directly it eventually listens,   *)
(* and no request is answered before both routes are registered.           *)
C9_Original ==
    /\ (pc = "line3" /\ name = "__main__") ~> (pc = "serving" /\ server.state = "listening")
    /\ [](last.handled => both_routes_registered)

(* C9 amended: once the program is run directly, and provided port 8000    *)
(* can be bound, it eventually listens on port 8000 (when the port is      *)
(* taken, the bind fails and the process exits); no request is answered    *)
(* before both routes are registered.                                      *)
C9_Amended ==
    /\ (pc = "line3" /\ name = "__main__" /\ port_free)
          ~> (pc = "serving" /\ server.state = "listening" /\ server.port = 8000)
    /\ (pc = "line3" /\ name = "__main__" /\ ~port_free) ~> (pc = "exited")
    /\ [](last.handled => both_routes_registered)

(* C9 happens: the port was free, the server listens and has answered a    *)
(* HEAD request.                                                           *)
C9_Witness ==
    /\ name = "__main__" /\ port_free
    /\ pc = "serving" /\ server.state = "listening"
    /\ last.handled /\ last.req.method = "HEAD"
    /\ both_routes_registered

handler_of(rule) ==
    view_function(view_functions, (CHOOSE r \in url_map : r.rule = rule).endpoint)

(* A step of the listening server that is not the end of the process       *)
(* leaves it listening with the same routes and the same view functions.   *)
StaysListening ==
    (pc = "serving" /\ pc' # "terminated") =>
        /\ pc' = "serving"
        /\ server' = server
        /\ url_map' = url_map
        /\ view_functions' = view_functions

=============================================================================
